---------------------------- MODULE Spec2Model ----------------------------
(***************************************************************************)
(* Model of the lead-finder search endpoint (/api/search.js): request      *)
(* parsing, the provider fallback chain (Google Places v1 -> legacy text   *)
(* search -> OpenStreetMap/Overpass), the per-company enrichment loop      *)
(* (public e-mail discovery, LinkedIn search links, lead score) and the    *)
(* mock-error fallback.                                                    *)
(*                                                                         *)
(* JavaScript strings are modelled as sequences of one-character strings,  *)
(* so that toLowerCase, trim, split, includes, endsWith and the e-mail     *)
(* regular expression are computed, not assumed.                           *)
(***************************************************************************)
EXTENDS Integers, Sequences, FiniteSets, TLC

(***************************************************************************)
(* Characters and basic string functions                                   *)
(***************************************************************************)
Uppers == <<"A","B","C","D","E","F","G","H","I","J","K","L","M",
            "N","O","P","Q","R","S","T","U","V","W","X","Y","Z">>
Lowers == <<"a","b","c","d","e","f","g","h","i","j","k","l","m",
            "n","o","p","q","r","s","t","u","v","w","x","y","z">>
Digits == {"0","1","2","3","4","5","6","7","8","9"}
Letters == {Uppers[i] : i \in 1..26} \cup {Lowers[i] : i \in 1..26}
\* the characters matched by \s that occur in the modelled texts
WS == {" ", "\t", "\n"}

Max(a, b) == IF a >= b THEN a ELSE b
Min(a, b) == IF a <= b THEN a ELSE b

\* String.prototype.toLowerCase, one character
LowerCh(c) ==
  IF \E i \in 1..26 : Uppers[i] = c
    THEN Lowers[CHOOSE i \in 1..26 : Uppers[i] = c]
    ELSE c

\* String.prototype.toLowerCase
ToLowerCase(s) == [i \in 1..Len(s) |-> LowerCh(s[i])]

\* String.prototype.trim
RECURSIVE TrimLeft(_)
TrimLeft(s) ==
  IF s = <<>> THEN <<>>
  ELSE IF Head(s) \in WS THEN TrimLeft(Tail(s)) ELSE s

RECURSIVE TrimRight(_)
TrimRight(s) ==
  IF s = <<>> THEN <<>>
  ELSE IF s[Len(s)] \in WS THEN TrimRight(SubSeq(s, 1, Len(s) - 1)) ELSE s

Trim(s) == TrimRight(TrimLeft(s))

\* String.prototype.startsWith / endsWith / includes
StartsWith(s, p) == Len(p) <= Len(s) /\ SubSeq(s, 1, Len(p)) = p
EndsWith(s, p) == Len(p) <= Len(s) /\ SubSeq(s, Len(s) - Len(p) + 1, Len(s)) = p
Includes(t, tok) ==
  \E i \in 0..(Len(t) - Len(tok)) : SubSeq(t, i + 1, i + Len(tok)) = tok

\* Array.prototype.join over an array of strings
RECURSIVE Join(_, _)
Join(parts, sep) ==
  IF parts = <<>> THEN <<>>
  ELSE IF Len(parts) = 1 THEN parts[1]
  ELSE parts[1] \o sep \o Join(Tail(parts), sep)

\* s.split(/\s+/).filter(Boolean): the maximal runs of non-whitespace
RECURSIVE SplitWords(_, _)
SplitWords(s, cur) ==
  IF s = <<>> THEN (IF cur = <<>> THEN <<>> ELSE <<cur>>)
  ELSE IF Head(s) \in WS
    THEN (IF cur = <<>> THEN <<>> ELSE <<cur>>) \o SplitWords(Tail(s), <<>>)
    ELSE SplitWords(Tail(s), Append(cur, Head(s)))

\* Array.prototype.filter(Boolean) over an array of strings
RECURSIVE FilterNonEmpty(_)
FilterNonEmpty(parts) ==
  IF parts = <<>> THEN <<>>
  ELSE IF Head(parts) = <<>> THEN FilterNonEmpty(Tail(parts))
  ELSE <<Head(parts)>> \o FilterNonEmpty(Tail(parts))


(***************************************************************************)
(* State                                                                   *)
(***************************************************************************)
VARIABLES
  req,          \* the incoming request: method and raw parameters
  apiKey,       \* process.env.GOOGLE_PLACES_API_KEY: TRUE when configured
  pc,           \* position of the handler
  subject,      \* handler locals ...
  industry,
  location,
  fullFlag,
  queryUsed,
  maxResults,
  companies,
  mode,
  totalMatches,
  enriched,
  idx,          \* number of entries of companies.slice(0, maxResults) consumed
  base,         \* fetchPublicEmails: normalized origin
  out,          \* fetchPublicEmails: the Set of e-mails, in insertion order
  pageIdx,      \* fetchPublicEmails: index of the candidate page being visited
  inflight,     \* outbound page fetches not yet settled
  timers,       \* abort timers armed and neither fired nor cleared
  aborts,       \* number of page fetches aborted by their timer
  err,          \* the exception caught by the outer catch
  calls,        \* outbound provider requests issued, in order
  fetched,      \* page fetches issued, in order: [cand, url]
  responses     \* responses written to res, in order

vars == <<req, apiKey, pc, subject, industry, location, fullFlag, queryUsed,
          maxResults, companies, mode, totalMatches, enriched, idx, base, out,
          pageIdx, inflight, timers, aborts, err, calls, fetched, responses>>

locals == <<subject, industry, location, fullFlag, queryUsed, maxResults>>
emailVars == <<base, out, pageIdx, inflight, timers, aborts, fetched>>

(***************************************************************************)
(* Query canonicalization and scoring                                      *)
(***************************************************************************)
\* (x || ''): a missing parameter reads as the empty string
OrEmpty(f) == IF f.has THEN f.val ELSE <<>>

\* variant: the default term is forgotten
BuildQuery_NoDefault(subj, ind, loc) ==
  LET parts == <<subj, ind, IF loc # <<>> THEN <<"i", "n", " ">> \o loc ELSE <<>>>>
  IN Trim(Join(FilterNonEmpty(parts), <<" ">>))

\* [subject, industry, location ? `in ${location}` : ''].filter(Boolean)
\*   .join(' ').trim() || 'manufacturer'
BuildQuery(subj, ind, loc) ==
  LET parts == <<subj, ind, IF loc # <<>> THEN <<"i", "n", " ">> \o loc ELSE <<>>>>
      q == Trim(Join(FilterNonEmpty(parts), <<" ">>))
  IN IF q # <<>> THEN q
     ELSE <<"m", "a", "n", "u", "f", "a", "c", "t", "u", "r", "e", "r">>

\* const maxResults = fullFlag ? 40 : 15
PreviewLimit == 15
FullLimit == 40
MaxResultsOf(full) == IF full THEN FullLimit ELSE PreviewLimit

\* tokens(s): lower, trim, split on whitespace, drop empties
tokens(s) == SplitWords(Trim(ToLowerCase(s)), <<>>)

\* variant: some() instead of every()
containsAll_Some(text, q) ==
  IF q = <<>> \/ Trim(q) = <<>> THEN TRUE
  ELSE LET t == ToLowerCase(text)
           toks == tokens(q)
       IN \E i \in 1..Len(toks) : Includes(t, toks[i])

\* containsAll(text, q)
containsAll(text, q) ==
  IF q = <<>> \/ Trim(q) = <<>> THEN TRUE
  ELSE LET t == ToLowerCase(text)
           toks == tokens(q)
       IN \A i \in 1..Len(toks) : Includes(t, toks[i])

\* c.description of a record that may lack the property: join() renders
\* undefined as the empty string
DescriptionOf(c) == IF "description" \in DOMAIN c THEN c.description ELSE <<>>

\* variant: the floor of 10 is forgotten
Clamp_NoFloor(s) == Min(100, s)

\* Math.max(10, Math.min(100, s || 10))
Clamp(s) == Max(10, Min(100, IF s # 0 THEN s ELSE 10))

\* score(c), closed over the handler's subject, industry and location
score(c) ==
  LET combined == Join(<<c.name, DescriptionOf(c), c.address, c.website>>, <<" ">>)
      s1 == IF containsAll(combined, subject) THEN 50 ELSE 0
      s2 == s1 + (IF containsAll(combined, industry) THEN 30 ELSE 0)
      s3 == s2 + (IF containsAll(c.address, location) THEN 20 ELSE 0)
  IN Clamp(s3)

(***************************************************************************)
(* E-mail discovery helpers                                                *)
(***************************************************************************)
\* character classes of /[a-zA-Z0-9._%+-]+@[a-zA-Z0-9.-]+\.[A-Za-z]{2,}/g
LocalChars == Letters \cup Digits \cup {".", "_", "%", "+", "-"}
DomainChars == Letters \cup Digits \cup {".", "-"}

\* index of the last character of the maximal run of class cls starting at i
\* (i - 1 when the run is empty)
RECURSIVE RunEnd(_, _, _)
RunEnd(h, i, cls) ==
  IF i <= Len(h) /\ h[i] \in cls THEN RunEnd(h, i + 1, cls) ELSE i - 1

\* end index of the regular expression's match starting exactly at i, 0 if none:
\* a greedy local part up to '@', then the greedy domain backtracks to the last
\* '.' that is followed by at least two letters
MatchEnd(h, i) ==
  LET le == RunEnd(h, i, LocalChars)
      ds == le + 2
      de == RunEnd(h, ds, DomainChars)
      dots == {p \in (ds + 1)..de :
                 h[p] = "." /\ RunEnd(h, p + 1, Letters) - p >= 2}
  IN IF le >= i /\ le + 1 <= Len(h) /\ h[le + 1] = "@" /\ dots # {}
       THEN RunEnd(h, (CHOOSE p \in dots : \A q \in dots : q <= p) + 1, Letters)
       ELSE 0

\* Set.prototype.add on a Set kept in insertion order
SetAdd(set, x) ==
  IF \E i \in 1..Len(set) : set[i] = x THEN set ELSE Append(set, x)

\* while ((m = re.exec(html)) !== null) emails.add(m[0])
RECURSIVE ScanEmails(_, _, _)
ScanEmails(h, pos, emails) ==
  IF pos > Len(h) THEN emails
  ELSE LET e == MatchEnd(h, pos)
       IN IF e = 0 THEN ScanEmails(h, pos + 1, emails)
          ELSE ScanEmails(h, e + 1, SetAdd(emails, SubSeq(h, pos, e)))

extractEmails(html) == ScanEmails(html, 1, <<>>)

HostChars == Letters \cup Digits \cup {".", "-"}
HttpPrefix == <<"h", "t", "t", "p">>
SchemeHttp == <<"h", "t", "t", "p", ":", "/", "/">>
SchemeHttps == <<"h", "t", "t", "p", "s", ":", "/", "/">>

\* new URL(s).origin for http(s) URLs without userinfo or port; <<>> stands
\* for the TypeError that new URL throws
UrlOrigin(s) ==
  LET l == ToLowerCase(s)
      scheme == IF StartsWith(l, SchemeHttps) THEN SchemeHttps
                ELSE IF StartsWith(l, SchemeHttp) THEN SchemeHttp
                ELSE <<>>
      hs == Len(scheme) + 1
      he == RunEnd(l, hs, HostChars)
  IN IF scheme = <<>> \/ he < hs THEN <<>>
     ELSE IF he < Len(l) /\ l[he + 1] \notin {"/", "?", "#"} THEN <<>>
     ELSE SubSeq(l, 1, he)

\* normalizeUrl(u): the origin, or '' when new URL throws
normalizeUrl(u) ==
  UrlOrigin(IF StartsWith(u, HttpPrefix) THEN u ELSE SchemeHttps \o u)

\* const candidates = [base, base + '/contact', ...]
PagePaths == <<
  <<>>,
  <<"/", "c", "o", "n", "t", "a", "c", "t">>,
  <<"/", "c", "o", "n", "t", "a", "c", "t", "-", "u", "s">>,
  <<"/", "a", "b", "o", "u", "t">>,
  <<"/", "c", "o", "n", "t", "a", "c", "t", "s">> >>
candidates(b) == [i \in 1..Len(PagePaths) |-> b \o PagePaths[i]]

ExampleSuffix == <<".", "e", "x", "a", "m", "p", "l", "e">>
MaxEmails == 3

\* variant: the address is stored as found, not lower-cased
RECURSIVE AddEmails_NoLower(_, _)
AddEmails_NoLower(set, found) ==
  IF found = <<>> THEN set
  ELSE LET e == Head(found)
           set2 == IF ~EndsWith(e, ExampleSuffix) THEN SetAdd(set, e) ELSE set
       IN IF Len(set2) >= MaxEmails THEN set2 ELSE AddEmails_NoLower(set2, Tail(found))

\* for (const email of extractEmails(html)) {
\*   if (!email.endsWith('.example')) out.add(email.toLowerCase());
\*   if (out.size >= 3) break; }
RECURSIVE AddEmails(_, _)
AddEmails(set, found) ==
  IF found = <<>> THEN set
  ELSE LET e == Head(found)
           set2 == IF ~EndsWith(e, ExampleSuffix)
                     THEN SetAdd(set, ToLowerCase(e)) ELSE set
       IN IF Len(set2) >= MaxEmails THEN set2 ELSE AddEmails(set2, Tail(found))

(***************************************************************************)
(* LinkedIn search links                                                   *)
(***************************************************************************)
Unreserved == Letters \cup Digits \cup {"-", "_", ".", "!", "~", "*", "'", "(", ")"}

\* encodeURIComponent, one character (the characters of the modelled texts)
EncodeCh(c) ==
  IF c \in Unreserved THEN <<c>>
  ELSE CASE c = " "  -> <<"%", "2", "0">>
         [] c = "\"" -> <<"%", "2", "2">>
         [] c = "#"  -> <<"%", "2", "3">>
         [] c = "%"  -> <<"%", "2", "5">>
         [] c = "&"  -> <<"%", "2", "6">>
         [] c = "+"  -> <<"%", "2", "B">>
         [] c = ","  -> <<"%", "2", "C">>
         [] c = "/"  -> <<"%", "2", "F">>
         [] c = ":"  -> <<"%", "3", "A">>
         [] c = "="  -> <<"%", "3", "D">>
         [] c = "?"  -> <<"%", "3", "F">>
         [] c = "@"  -> <<"%", "4", "0">>
         [] c = "|"  -> <<"%", "7", "C">>
         [] c = "EMDASH" -> <<"%", "E", "2", "%", "8", "0", "%", "9", "4">>

\* a UTF-16 surrogate code unit without its partner, as JSON.parse yields
\* for the escape \ud800
LoneSurrogate == "SURROGATE"

\* encodeURIComponent throws a URIError on a lone surrogate
Encodable(s) == \A i \in 1..Len(s) : s[i] # LoneSurrogate

RECURSIVE encodeURIComponent(_)
encodeURIComponent(s) ==
  IF s = <<>> THEN <<>> ELSE EncodeCh(Head(s)) \o encodeURIComponent(Tail(s))

roles == <<
  <<"C", "E", "O">>,
  <<"C", "O", "O">>,
  <<"C", "T", "O">>,
  <<"H", "e", "a", "d", " ", "o", "f", " ", "O", "p", "e", "r", "a", "t", "i", "o", "n", "s">>,
  <<"H", "e", "a", "d", " ", "o", "f", " ", "S", "u", "p", "p", "l", "y", " ", "C", "h", "a", "i", "n">>,
  <<"O", "p", "e", "r", "a", "t", "i", "o", "n", "s", " ", "M", "a", "n", "a", "g", "e", "r">>,
  <<"S", "u", "p", "p", "l", "y", " ", "C", "h", "a", "i", "n", " ", "M", "a", "n", "a", "g", "e", "r">> >>
CeoOnly == <<roles[1]>>

SearchBase == <<"h", "t", "t", "p", "s", ":", "/", "/", "w", "w", "w", ".", "g", "o", "o", "g", "l", "e", ".", "c", "o", "m", "/", "s", "e", "a", "r", "c", "h", "?", "q", "=">>
SitePrefix == <<"s", "i", "t", "e", ":", "l", "i", "n", "k", "e", "d", "i", "n", ".", "c", "o", "m", "/", "i", "n", " ">>

\* variant: the company name is not put in quotes
buildLinkedInSearch_Unquoted(companyName, rs) ==
  [i \in 1..Len(rs) |->
     [role |-> rs[i],
      url |-> SearchBase \o encodeURIComponent(
                SitePrefix \o <<"\"">> \o rs[i] \o <<"\"", " ">> \o companyName)]]

\* buildLinkedInSearch(companyName, roles)
buildLinkedInSearch(companyName, rs) ==
  LET company == <<"\"">> \o companyName \o <<"\"">>
  IN [i \in 1..Len(rs) |->
        [role |-> rs[i],
         url |-> SearchBase \o encodeURIComponent(
                   SitePrefix \o <<"\"">> \o rs[i] \o <<"\"", " ">> \o company)]]

(***************************************************************************)
(* The environment: requests, provider payloads, page contents             *)
(***************************************************************************)
Absent == [has |-> FALSE, val |-> <<>>]
Some(v) == [has |-> TRUE, val |-> v]

\* (x || d) for a string-valued, possibly missing x
OrElse(f, d) == IF f.has /\ f.val # <<>> THEN f.val ELSE d

StrAi == <<"a", "i">>
StrAiZz == <<"A", "i", " ", "z", "z">>
StrBlank == <<" ">>
StrCo == <<"C", "o">>
StrQq == <<"q", "q">>
StrSydney == <<"S", "y", "d", "n", "e", "y">>
StrSydneyPadded == <<" ", "S", "y", "d", "n", "e", "y", " ">>
StrMars == <<"M", "a", "r", "s">>

\* the requests the handler is driven with; full is the raw `full` parameter
Requests == {
  [method |-> "GET", subject |-> Some(StrAi), industry |-> Absent,
   location |-> Some(StrSydney), full |-> "absent"],
  [method |-> "POST", subject |-> Some(StrAi), industry |-> Absent,
   location |-> Some(StrSydneyPadded), full |-> "bool_true"],
  [method |-> "GET", subject |-> Absent, industry |-> Absent,
   location |-> Absent, full |-> "str_1"],
  [method |-> "POST", subject |-> Some(StrAiZz), industry |-> Some(StrQq),
   location |-> Some(StrMars), full |-> "str_1"],
  [method |-> "POST", subject |-> Some(StrBlank), industry |-> Some(StrCo),
   location |-> Absent, full |-> "num_1"],
  [method |-> "PUT", subject |-> Some(StrAi), industry |-> Absent,
   location |-> Absent, full |-> "absent"] }

\* the businesses the providers know about
World == <<
  [name |-> Some(<<"A", "i", " ", "C", "o">>), website |-> Some(<<"b", ".", "c", "o">>),
   housenumber |-> Some(<<"1">>), city |-> Some(StrSydney)],
  [name |-> Absent, website |-> Absent,
   housenumber |-> Absent, city |-> Absent],
  [name |-> Some(<<"Z", "e", "d">>), website |-> Some(<<"h", "t", "t", "p", "x", ".", "i", "o">>),
   housenumber |-> Absent, city |-> Some(<<"P", "e", "r", "t", "h">>)] >>

\* longest list a provider returns in the model
MaxCands == 2

\* a business without a web site, of which a provider may return many
Bulk ==
  [name |-> Some(<<"B", "u", "l", "k", " ", "L", "t", "d">>), website |-> Absent,
   housenumber |-> Absent, city |-> Some(StrSydney)]

\* an answer longer than any result limit
LongListing == [i \in 1..(FullLimit + 1) |-> Bulk]

\* a business whose name ends in a lone surrogate
Odd ==
  [name |-> Some(<<"O", "d", LoneSurrogate>>), website |-> Absent,
   housenumber |-> Absent, city |-> Some(StrSydney)]

\* an answer whose second entry has such a name
OddListing == <<Bulk, Odd>>

\* the lists of businesses a provider may answer with
Listings ==
  {[i \in 1..n |-> World[((i - 1 + off) % Len(World)) + 1]] :
     n \in 0..MaxCands, off \in 0..(Len(World) - 1)}
  \cup {LongListing, OddListing}

\* a business as each provider's native element
FormattedAddress(b) ==
  IF b.city.has
    THEN Some(Join(FilterNonEmpty(<<OrEmpty(b.housenumber), b.city.val>>), <<" ">>))
    ELSE Absent
V1Place(b) ==
  [displayName |-> b.name, websiteUri |-> b.website,
   formattedAddress |-> FormattedAddress(b)]
LegacyResult(b) ==
  [name |-> b.name, formatted_address |-> FormattedAddress(b)]
OsmElement(b) ==
  [name |-> b.name, website |-> Absent, contactWebsite |-> b.website,
   housenumber |-> b.housenumber, city |-> b.city, full |-> FormattedAddress(b)]

\* page bodies a web site may serve
Pages == {
  <<"a", "@", "b", ".", "c", "o", " ", "A", "@", "b", ".", "c", "o">>,
  <<"c", "@", "b", ".", "c", "o", " ", "d", "@", "b", ".", "c", "o", " ", "e", "@", "b", ".", "c", "o">>,
  <<"x", "@", "y", ".", "e", "x", "a", "m", "p", "l", "e", " ", "q", "@", "y", ".", "E", "X", "A", "M", "P", "L", "E">>,
  <<"h", "e", "l", "l", "o">> }

\* errors thrown by fetch, by JSON parsing and by the adapters themselves
Error(msg) == [message |-> msg]
NoError == [message |-> ""]
TransportError == Error("fetch failed")
ParseError == Error("Unexpected token < in JSON at position 0")

\* the URIError of encodeURIComponent
UriError == Error("URI malformed")

\* String(err?.message || err)
ErrorMessage(e) == IF e.message # "" THEN e.message ELSE "Error"

(***************************************************************************)
(* Provider adapters: native payload -> candidates                         *)
(***************************************************************************)
Dash == <<"EMDASH">>

\* fetchGoogleV1: (data.places || []).map(...)
MapV1(places) ==
  [i \in 1..Len(places) |->
     [name |-> OrElse(places[i].displayName, Dash),
      website |-> OrElse(places[i].websiteUri, <<>>),
      address |-> OrElse(places[i].formattedAddress, <<>>)]]

\* fetchLegacy: (data.results || []).slice(0, limit).map(...)
MapLegacy(results, limit) ==
  [i \in 1..Min(Len(results), limit) |->
     [name |-> OrElse(results[i].name, Dash),
      website |-> <<>>,
      address |-> OrElse(results[i].formatted_address, <<>>)]]

\* fetchOSM: one element's tags -> candidate
OsmCandidate(t) ==
  LET addr == Join(FilterNonEmpty(<<OrEmpty(t.housenumber), OrEmpty(t.city)>>),
                   <<",", " ">>)
  IN [name |-> OrElse(t.name, Dash),
      website |-> OrElse(t.website, OrElse(t.contactWebsite, <<>>)),
      address |-> IF addr # <<>> THEN addr ELSE OrElse(t.full, <<>>)]

\* .filter((x) => x.name && x.name !== DASH)
RECURSIVE FilterNamed(_)
FilterNamed(cs) ==
  IF cs = <<>> THEN <<>>
  ELSE IF Head(cs).name # <<>> /\ Head(cs).name # Dash
    THEN <<Head(cs)>> \o FilterNamed(Tail(cs))
    ELSE FilterNamed(Tail(cs))

MapOSM(elements) ==
  FilterNamed([i \in 1..Len(elements) |-> OsmCandidate(elements[i])])

\* Math.min(limit, 20)
V1Cap == 20

\* the first four words of the query, escaped and joined by '|'
OsmWords(query) ==
  LET ws == SplitWords(query, <<>>)
  IN SubSeq(ws, 1, Min(4, Len(ws)))

(***************************************************************************)
(* The handler                                                             *)
(***************************************************************************)
Init ==
  /\ req \in Requests
  /\ apiKey \in BOOLEAN
  /\ pc = "start"
  /\ subject = <<>> /\ industry = <<>> /\ location = <<>>
  /\ fullFlag = FALSE
  /\ queryUsed = <<>>
  /\ maxResults = 0
  /\ companies = <<>>
  /\ mode = "unset"
  /\ totalMatches = 0
  /\ enriched = <<>>
  /\ idx = 0
  /\ base = <<>> /\ out = <<>> /\ pageIdx = 0
  /\ inflight = {}
  /\ timers = {}
  /\ aborts = 0
  /\ err = NoError
  /\ calls = <<>>
  /\ fetched = <<>>
  /\ responses = <<>>

\* fullParam === 'true' || fullParam === '1'
FullFromQuery(raw) == raw \in {"str_true", "str_1"}
\* body.full === true || body.full === 'true' || body.full === 1
FullFromBody(raw) == raw \in {"bool_true", "str_true", "num_1"}

\* parameter extraction, query canonicalization, result limit
ParseRequest ==
  /\ pc = "start"
  /\ IF req.method \in {"GET", "POST"}
       THEN /\ subject' = Trim(OrEmpty(req.subject))
            /\ industry' = Trim(OrEmpty(req.industry))
            /\ location' = Trim(OrEmpty(req.location))
            /\ fullFlag' = IF req.method = "GET" THEN FullFromQuery(req.full)
                                                 ELSE FullFromBody(req.full)
            /\ queryUsed' = BuildQuery(subject', industry', location')
            /\ maxResults' = MaxResultsOf(fullFlag')
            /\ pc' = "try"
            /\ UNCHANGED responses
       ELSE /\ responses' = Append(responses,
                 [status |-> 405, body |-> [message |-> "Method not allowed"]])
            /\ pc' = "done"
            /\ UNCHANGED locals
  /\ UNCHANGED <<req, apiKey, companies, mode, totalMatches, enriched, idx,
                 emailVars, err, calls>>

\* one outbound provider request with its outcome: the query argument handed
\* to the adapter, the query the adapter puts on the wire, the error thrown by
\* the adapter (NoError on success) and the number of candidates it returned
Call(to, arg, query, limit, e, n) ==
  [to |-> to, arg |-> arg, query |-> query, limit |-> limit, error |-> e,
   returned |-> n]

\* variant: the emptiness test is always false (an array is truthy)
AfterChain_Truthy(cs) == "loop"

\* if (companies.length === 0) { fetchOSM } else go on to enrichment
AfterChain(cs) == IF Len(cs) = 0 THEN "osm" ELSE "loop"

\* variant: the Google providers are tried whether or not a key is configured
BeginChain_IgnoreKey ==
  /\ pc = "try"
  /\ companies' = <<>>
  /\ mode' = "live-osm"
  /\ pc' = "v1"
  /\ UNCHANGED <<req, apiKey, locals, totalMatches, enriched, idx, emailVars,
                 err, calls, responses>>

\* let companies = []; let mode = 'live-osm'; if (apiKey) ...
BeginChain ==
  /\ pc = "try"
  /\ companies' = <<>>
  /\ mode' = "live-osm"
  /\ pc' = IF apiKey THEN "v1" ELSE AfterChain(companies')
  /\ UNCHANGED <<req, apiKey, locals, totalMatches, enriched, idx, emailVars,
                 err, calls, responses>>

\* companies = await fetchGoogleV1(queryUsed, apiKey, maxResults); mode = 'live-v1'
\* any throw is caught by catch (e1), which tries the legacy provider
FetchGoogleV1 ==
  /\ pc = "v1"
  /\ \/ \E l \in Listings :
          /\ companies' = MapV1([i \in 1..Len(l) |-> V1Place(l[i])])
          /\ calls' = Append(calls, Call("v1", queryUsed, queryUsed, Min(maxResults, V1Cap),
                                         NoError, Len(companies')))
          /\ mode' = "live-v1"
          /\ pc' = AfterChain(companies')
          /\ totalMatches' = Len(companies')
     \/ \E e \in {TransportError, Error("Google v1 503: unavailable"), ParseError} :
          /\ calls' = Append(calls, Call("v1", queryUsed, queryUsed, Min(maxResults, V1Cap), e, 0))
          /\ pc' = "legacy"
          /\ UNCHANGED <<companies, mode, totalMatches>>
  /\ UNCHANGED <<req, apiKey, locals, enriched, idx, emailVars, err, responses>>

\* variant: no inner try around the legacy call, its throw reaches the outer catch
FetchLegacy_Rethrow ==
  /\ pc = "legacy"
  /\ \/ \E l \in Listings :
          /\ companies' = MapLegacy([i \in 1..Len(l) |-> LegacyResult(l[i])], maxResults)
          /\ calls' = Append(calls, Call("legacy", queryUsed, encodeURIComponent(queryUsed),
                                         maxResults, NoError, Len(companies')))
          /\ mode' = "live-legacy"
          /\ pc' = AfterChain(companies')
          /\ totalMatches' = Len(companies')
          /\ UNCHANGED err
     \/ \E e \in {TransportError, Error("legacy REQUEST_DENIED: "), ParseError} :
          /\ calls' = Append(calls, Call("legacy", queryUsed, encodeURIComponent(queryUsed),
                                         maxResults, e, 0))
          /\ err' = e
          /\ pc' = "catch"
          /\ UNCHANGED <<companies, mode, totalMatches>>
  /\ UNCHANGED <<req, apiKey, locals, enriched, idx, emailVars, responses>>

\* companies = await fetchLegacy(queryUsed, apiKey, maxResults); mode = 'live-legacy'
\* any throw is swallowed by catch (e2)
FetchLegacy ==
  /\ pc = "legacy"
  /\ \/ \E l \in Listings :
          \* status OK, or ZERO_RESULTS with no results property
          /\ companies' = MapLegacy([i \in 1..Len(l) |-> LegacyResult(l[i])], maxResults)
          /\ calls' = Append(calls, Call("legacy", queryUsed, encodeURIComponent(queryUsed),
                                         maxResults, NoError, Len(companies')))
          /\ mode' = "live-legacy"
          /\ pc' = AfterChain(companies')
          /\ totalMatches' = Len(companies')
     \/ \E e \in {TransportError, Error("legacy REQUEST_DENIED: "), ParseError} :
          /\ calls' = Append(calls, Call("legacy", queryUsed, encodeURIComponent(queryUsed),
                                         maxResults, e, 0))
          /\ pc' = AfterChain(companies)
          /\ UNCHANGED <<companies, mode, totalMatches>>
  /\ UNCHANGED <<req, apiKey, locals, enriched, idx, emailVars, err, responses>>

\* variant: the open-geodata failure is swallowed like the two before it
FetchOSM_Swallow ==
  /\ pc = "osm"
  /\ \/ \E l \in Listings :
          /\ companies' = MapOSM([i \in 1..Len(l) |-> OsmElement(l[i])])
          /\ calls' = Append(calls, Call("osm", queryUsed, OsmWords(queryUsed), maxResults,
                                         NoError, Len(companies')))
          /\ mode' = "live-osm"
          /\ totalMatches' = Len(companies')
          /\ pc' = "loop"
     \/ \E e \in {TransportError, Error("OSM 504: gateway timeout"), ParseError} :
          /\ calls' = Append(calls, Call("osm", queryUsed, OsmWords(queryUsed), maxResults, e, 0))
          /\ pc' = "loop"
          /\ UNCHANGED <<companies, mode, totalMatches>>
  /\ UNCHANGED <<req, apiKey, locals, enriched, idx, emailVars, err, responses>>

\* variant: the mode is not set again after the open-geodata call
FetchOSM_KeepMode ==
  /\ pc = "osm"
  /\ \/ \E l \in Listings :
          /\ companies' = MapOSM([i \in 1..Len(l) |-> OsmElement(l[i])])
          /\ calls' = Append(calls, Call("osm", queryUsed, OsmWords(queryUsed), maxResults,
                                         NoError, Len(companies')))
          /\ totalMatches' = Len(companies')
          /\ pc' = "loop"
          /\ UNCHANGED <<err, mode>>
     \/ \E e \in {TransportError, Error("OSM 504: gateway timeout"), ParseError} :
          /\ calls' = Append(calls, Call("osm", queryUsed, OsmWords(queryUsed), maxResults, e, 0))
          /\ err' = e
          /\ pc' = "catch"
          /\ UNCHANGED <<companies, mode, totalMatches>>
  /\ UNCHANGED <<req, apiKey, locals, enriched, idx, emailVars, responses>>

\* companies = await fetchOSM(queryUsed, location, maxResults); mode = 'live-osm'
\* a throw leaves the try block for the outer catch
FetchOSM ==
  /\ pc = "osm"
  /\ \/ \E l \in Listings :
          /\ companies' = MapOSM([i \in 1..Len(l) |-> OsmElement(l[i])])
          /\ calls' = Append(calls, Call("osm", queryUsed, OsmWords(queryUsed), maxResults,
                                         NoError, Len(companies')))
          /\ mode' = "live-osm"
          /\ totalMatches' = Len(companies')
          /\ pc' = "loop"
          /\ UNCHANGED err
     \/ \E e \in {TransportError, Error("OSM 504: gateway timeout"), ParseError} :
          /\ calls' = Append(calls, Call("osm", queryUsed, OsmWords(queryUsed), maxResults, e, 0))
          /\ err' = e
          /\ pc' = "catch"
          /\ UNCHANGED <<companies, mode, totalMatches>>
  /\ UNCHANGED <<req, apiKey, locals, enriched, idx, emailVars, responses>>

\* variant: every candidate is enriched, the list is not cut
Slice_All == companies

\* companies.slice(0, maxResults)
Slice == SubSeq(companies, 1, Min(Len(companies), maxResults))

\* { ...base, description, emails, linkedinSearch, leadScore: score(base) }
Item(b, emails) ==
  [name |-> b.name, website |-> b.website, address |-> b.address,
   description |-> Trim(subject \o <<" ">> \o industry),
   emails |-> emails,
   linkedinSearch |-> buildLinkedInSearch(b.name, roles),
   leadScore |-> score(b)]

\* variant: a candidate whose links cannot be built is left out
Push_SkipBad(emails) ==
  IF Encodable(Slice[idx + 1].name)
    THEN /\ enriched' = Append(enriched, Item(Slice[idx + 1], emails))
         /\ idx' = idx + 1
         /\ pc' = "loop"
         /\ UNCHANGED err
    ELSE /\ idx' = idx + 1
         /\ pc' = "loop"
         /\ UNCHANGED <<enriched, err>>

\* const linkedinSearch = buildLinkedInSearch(base.name, roles); ...
\* enriched.push(item): encodeURIComponent throws on a name it cannot encode,
\* which leaves the loop for the outer catch
Push(emails) ==
  IF Encodable(Slice[idx + 1].name)
    THEN /\ enriched' = Append(enriched, Item(Slice[idx + 1], emails))
         /\ idx' = idx + 1
         /\ pc' = "loop"
         /\ UNCHANGED err
    ELSE /\ err' = UriError
         /\ pc' = "catch"
         /\ UNCHANGED <<enriched, idx>>

\* fetchPublicEmails: if (!website) return []; then the item is pushed
EnrichWithoutWebsite ==
  /\ pc = "loop"
  /\ idx < Len(Slice)
  /\ Slice[idx + 1].website = <<>>
  /\ Push(<<>>)
  /\ UNCHANGED <<req, apiKey, locals, companies, mode, totalMatches,
                 emailVars, calls, responses>>

\* fetchPublicEmails: const out = new Set(); const base = normalizeUrl(website)
BeginEmailDiscovery ==
  /\ pc = "loop"
  /\ idx < Len(Slice)
  /\ Slice[idx + 1].website # <<>>
  /\ base' = normalizeUrl(Slice[idx + 1].website)
  /\ out' = <<>>
  /\ pageIdx' = 1
  /\ pc' = "page"
  /\ UNCHANGED <<req, apiKey, locals, companies, mode, totalMatches, enriched,
                 idx, inflight, timers, aborts, fetched, err, calls, responses>>

\* variant: getWithTimeout without the setTimeout
ArmTimer_None(f) == timers

\* const t = setTimeout(() => ctrl.abort(), ms)
ArmTimer(f) == timers \cup {f}

\* variant: the pages still to visit are all requested at once
StartPageFetch_FireAll ==
  /\ pc = "page"
  /\ inflight' = inflight \cup {[cand |-> idx + 1, page |-> p] : p \in pageIdx..Len(PagePaths)}
  /\ timers' = ArmTimer([cand |-> idx + 1, page |-> pageIdx])
  /\ fetched' = Append(fetched, [cand |-> idx + 1, url |-> candidates(base)[pageIdx]])
  /\ pc' = "await"
  /\ UNCHANGED <<req, apiKey, locals, companies, mode, totalMatches, enriched,
                 idx, base, out, pageIdx, aborts, err, calls, responses>>

\* getWithTimeout(url, 6000): the abort timer is armed and the fetch issued
StartPageFetch ==
  /\ pc = "page"
  /\ inflight' = inflight \cup {[cand |-> idx + 1, page |-> pageIdx]}
  /\ timers' = ArmTimer([cand |-> idx + 1, page |-> pageIdx])
  /\ fetched' = Append(fetched, [cand |-> idx + 1, url |-> candidates(base)[pageIdx]])
  /\ pc' = "await"
  /\ UNCHANGED <<req, apiKey, locals, companies, mode, totalMatches, enriched,
                 idx, base, out, pageIdx, aborts, err, calls, responses>>

\* the rest of one iteration of `for (const url of candidates)`: with the set o
\* after this page, break when it holds 3 addresses or the pages are used up,
\* and then return Array.from(out) to the loop, which pushes the item;
\* getWithTimeout's finally has cleared the timer
AfterPage(o) ==
  /\ inflight' = inflight \ {[cand |-> idx + 1, page |-> pageIdx]}
  /\ timers' = timers \ {[cand |-> idx + 1, page |-> pageIdx]}
  /\ out' = o
  /\ IF Len(o) >= MaxEmails \/ pageIdx = Len(PagePaths)
       THEN /\ Push(o)
            /\ UNCHANGED pageIdx
       ELSE /\ pageIdx' = pageIdx + 1
            /\ pc' = "page"
            /\ UNCHANGED <<enriched, idx, err>>
  /\ UNCHANGED <<req, apiKey, locals, companies, mode, totalMatches, base,
                 fetched, calls, responses>>

\* the page answers: its e-mails are extracted and added
PageResponds ==
  /\ pc = "await"
  /\ base # <<>>
  /\ \E html \in Pages : AfterPage(AddEmails(out, extractEmails(html)))
  /\ UNCHANGED aborts

\* variant: the first failing page ends the discovery for this website
PageFails_GiveUp ==
  /\ pc = "await"
  /\ inflight' = inflight \ {[cand |-> idx + 1, page |-> pageIdx]}
  /\ timers' = timers \ {[cand |-> idx + 1, page |-> pageIdx]}
  /\ Push(out)
  /\ UNCHANGED <<req, apiKey, locals, companies, mode, totalMatches, base, out,
                 pageIdx, aborts, fetched, calls, responses>>

\* fetch rejects (transport error, or a URL that cannot be parsed): ignored
PageFails ==
  /\ pc = "await"
  /\ AfterPage(out)
  /\ UNCHANGED aborts

\* variant: no try around the page fetch, the abort's rejection leaves
\* fetchPublicEmails and the enrichment loop for the outer catch
PageTimesOut_Throw ==
  /\ pc = "await"
  /\ base # <<>>
  /\ [cand |-> idx + 1, page |-> pageIdx] \in timers
  /\ aborts' = aborts + 1
  /\ inflight' = {}
  /\ timers' = {}
  /\ err' = Error("This operation was aborted")
  /\ pc' = "catch"
  /\ UNCHANGED <<req, apiKey, locals, companies, mode, totalMatches, enriched,
                 idx, base, out, pageIdx, fetched, calls, responses>>

\* the timer fires, ctrl.abort() rejects the fetch: ignored like any other failure
PageTimesOut ==
  /\ pc = "await"
  /\ base # <<>>
  /\ [cand |-> idx + 1, page |-> pageIdx] \in timers
  /\ aborts' = aborts + 1
  /\ AfterPage(out)

MockBase == <<
  [name |-> <<"A", "I", " ", "L", "o", "g", "i", "s", "t", "i", "c", "s", " ", "P", "t", "y", " ", "L", "t", "d">>,
   website |-> <<"h", "t", "t", "p", "s", ":", "/", "/", "a", "i", "l", "o", "g", "i", "s", "t", "i", "c", "s", ".", "e", "x", "a", "m", "p", "l", "e">>,
   address |-> <<"C", "B", "D", ",", " ", "S", "y", "d", "n", "e", "y">>],
  [name |-> <<"S", "m", "a", "r", "t", " ", "M", "a", "n", "u", "f", "a", "c", "t", "u", "r", "i", "n", "g", " ", "A", "I">>,
   website |-> <<"h", "t", "t", "p", "s", ":", "/", "/", "s", "m", "a", "i", "a", "i", ".", "e", "x", "a", "m", "p", "l", "e">>,
   address |-> <<"N", "o", "r", "t", "h", " ", "S", "y", "d", "n", "e", "y">>] >>

\* MOCK = [...].map((c) => ({ ...c, leadScore, emails: [], linkedinSearch }))
MOCK ==
  [i \in 1..Len(MockBase) |->
     [name |-> MockBase[i].name, website |-> MockBase[i].website,
      address |-> MockBase[i].address,
      leadScore |-> score(MockBase[i]),
      emails |-> <<>>,
      linkedinSearch |-> buildLinkedInSearch(MockBase[i].name, CeoOnly)]]

\* variant: an empty result is replaced by the placeholder dataset
Respond_MockOnEmpty ==
  /\ pc = "loop"
  /\ idx >= Len(Slice)
  /\ responses' = Append(responses,
       [status |-> 200,
        body |-> [mode |-> mode, queryUsed |-> queryUsed,
                  total |-> IF enriched = <<>> THEN Len(MOCK) ELSE totalMatches,
                  companies |-> IF enriched = <<>> THEN MOCK ELSE enriched]])
  /\ pc' = "done"
  /\ UNCHANGED <<req, apiKey, locals, companies, mode, totalMatches, enriched,
                 idx, emailVars, err, calls>>

\* enriched.sort((a, b) => b.leadScore - a.leadScore), as an insertion sort
RECURSIVE InsertByScore(_, _)
InsertByScore(sorted, x) ==
  IF sorted = <<>> THEN <<x>>
  ELSE IF Head(sorted).leadScore >= x.leadScore
    THEN <<Head(sorted)>> \o InsertByScore(Tail(sorted), x)
    ELSE <<x>> \o sorted

RECURSIVE SortByScore(_)
SortByScore(items) ==
  IF items = <<>> THEN <<>>
  ELSE InsertByScore(SortByScore(SubSeq(items, 1, Len(items) - 1)), items[Len(items)])

\* variant: the items are sorted by lead score before they are sent
Respond_Sorted ==
  /\ pc = "loop"
  /\ idx >= Len(Slice)
  /\ responses' = Append(responses,
       [status |-> 200,
        body |-> [mode |-> mode, queryUsed |-> queryUsed,
                  total |-> totalMatches, companies |-> SortByScore(enriched)]])
  /\ pc' = "done"
  /\ UNCHANGED <<req, apiKey, locals, companies, mode, totalMatches, enriched,
                 idx, emailVars, err, calls>>

\* variant: total counts the companies sent
Respond_TotalSent ==
  /\ pc = "loop"
  /\ idx >= Len(Slice)
  /\ responses' = Append(responses,
       [status |-> 200,
        body |-> [mode |-> mode, queryUsed |-> queryUsed,
                  total |-> Len(enriched), companies |-> enriched]])
  /\ pc' = "done"
  /\ UNCHANGED <<req, apiKey, locals, companies, mode, totalMatches, enriched,
                 idx, emailVars, err, calls>>

\* return res.status(200).json({ mode, queryUsed, total, companies: enriched })
Respond ==
  /\ pc = "loop"
  /\ idx >= Len(Slice)
  /\ responses' = Append(responses,
       [status |-> 200,
        body |-> [mode |-> mode, queryUsed |-> queryUsed,
                  total |-> totalMatches, companies |-> enriched]])
  /\ pc' = "done"
  /\ UNCHANGED <<req, apiKey, locals, companies, mode, totalMatches, enriched,
                 idx, emailVars, err, calls>>

\* variant: the catch block answers with an error status
CatchMock_Status500 ==
  /\ pc = "catch"
  /\ responses' = Append(responses,
       [status |-> 500, body |-> [message |-> ErrorMessage(err)]])
  /\ pc' = "done"
  /\ UNCHANGED <<req, apiKey, locals, companies, mode, totalMatches, enriched,
                 idx, emailVars, err, calls>>

\* catch (err) { ... return res.status(200).json({ mode: 'mock-error', ... }) }
CatchMock ==
  /\ pc = "catch"
  /\ responses' = Append(responses,
       [status |-> 200,
        body |-> [mode |-> "mock-error", queryUsed |-> queryUsed,
                  total |-> Len(MOCK), companies |-> MOCK,
                  errorMessage |-> ErrorMessage(err)]])
  /\ pc' = "done"
  /\ UNCHANGED <<req, apiKey, locals, companies, mode, totalMatches, enriched,
                 idx, emailVars, err, calls>>

Next ==
  \/ ParseRequest
  \/ BeginChain
  \/ FetchGoogleV1
  \/ FetchLegacy
  \/ FetchOSM
  \/ EnrichWithoutWebsite
  \/ BeginEmailDiscovery
  \/ StartPageFetch
  \/ PageResponds
  \/ PageFails
  \/ PageTimesOut
  \/ Respond
  \/ CatchMock

Spec == Init /\ [][Next]_vars

(***************************************************************************)
(* Properties                                                              *)
(***************************************************************************)
Done == pc = "done"
Answered == Len(responses) = 1
Envelope == responses[1].body
LiveModes == {"live-v1", "live-legacy", "live-osm"}
IsLive == Answered /\ responses[1].status = 200 /\ Envelope.mode \in LiveModes
IsMock == Answered /\ responses[1].status = 200 /\ Envelope.mode = "mock-error"

Contacted(p) == \E i \in 1..Len(calls) : calls[i].to = p
Failed(p) == \E i \in 1..Len(calls) : calls[i].to = p /\ calls[i].error # NoError
Succeeded(p) == \E i \in 1..Len(calls) : calls[i].to = p /\ calls[i].error = NoError
ErrorOf(p) == calls[CHOOSE i \in 1..Len(calls) : calls[i].to = p].error

\* C1: with a credential configured, when the structured and the legacy
\* provider have both failed, the open-geodata provider is asked, and when it
\* answers the request ends with one success response whose mode is live-osm
\* and which carries no error message.
C1_BothFailOsmServes ==
  (Done /\ apiKey /\ Failed("v1") /\ Failed("legacy"))
    => /\ Contacted("osm")
       /\ Answered
       /\ responses[1].status = 200
       /\ Succeeded("osm") => /\ Envelope.mode = "live-osm"
                              /\ "errorMessage" \notin DOMAIN Envelope

\* every candidate the loop enriches has a name encodeURIComponent accepts
AllEncodable == \A c \in 1..Len(Slice) : Encodable(Slice[c].name)

\* C1 (amended): with a credential configured, when the structured and the
\* legacy provider have both failed, the open-geodata provider is asked and
\* the request ends with one success response; when the provider answers, the
\* mode is live-osm with no error message if every enriched candidate's name
\* can be URL-encoded, and mock-error with the URIError's message otherwise.
C1_OsmServesEncodable ==
  (Done /\ apiKey /\ Failed("v1") /\ Failed("legacy"))
    => /\ Contacted("osm")
       /\ Answered
       /\ responses[1].status = 200
       /\ Succeeded("osm")
            => IF AllEncodable
                 THEN /\ Envelope.mode = "live-osm"
                      /\ "errorMessage" \notin DOMAIN Envelope
                 ELSE /\ Envelope.mode = "mock-error"
                      /\ Envelope.errorMessage = UriError.message

C1_Witness ==
  /\ Done /\ apiKey /\ Failed("v1") /\ Failed("legacy") /\ Succeeded("osm")
  /\ IsLive /\ Len(Envelope.companies) > 0

PlaceholderNames == [i \in 1..Len(MockBase) |-> MockBase[i].name]

\* C2: when the open-geodata provider fails after the structured and legacy
\* providers have failed, the response is a mock-error envelope holding exactly
\* the two placeholder companies, with a non-empty errorMessage equal to the
\* message of the open-geodata error.
C2_AllFailMock ==
  (Done /\ Failed("v1") /\ Failed("legacy") /\ Failed("osm"))
    => /\ IsMock
       /\ Len(Envelope.companies) = 2
       /\ [i \in 1..Len(Envelope.companies) |-> Envelope.companies[i].name]
            = PlaceholderNames
       /\ \A i \in 1..Len(Envelope.companies) : Envelope.companies[i].emails = <<>>
       /\ Envelope.errorMessage # ""
       /\ Envelope.errorMessage = ErrorOf("osm").message

C2_Witness ==
  /\ Done /\ Failed("v1") /\ Failed("legacy") /\ Failed("osm")
  /\ IsMock /\ Envelope.errorMessage = "OSM 504: gateway timeout"

AllConsultedEmpty ==
  /\ calls # <<>>
  /\ \A i \in 1..Len(calls) : calls[i].error = NoError /\ calls[i].returned = 0

\* C3: when every provider consulted answers without error and with no
\* candidate, the envelope has no companies, total 0 and mode live-osm; the
\* placeholder dataset is not substituted.
C3_EmptyIsNotMock ==
  (Done /\ AllConsultedEmpty)
    => /\ IsLive
       /\ Envelope.companies = <<>>
       /\ Envelope.total = 0
       /\ Envelope.mode = "live-osm"
       /\ "errorMessage" \notin DOMAIN Envelope

C3_Witness ==
  /\ Done /\ AllConsultedEmpty /\ apiKey /\ Contacted("v1") /\ Contacted("osm")
  /\ IsLive /\ Envelope.total = 0

\* the positions at which the handler has a step to take
Running == {"start", "try", "v1", "legacy", "osm", "loop", "page", "await", "catch"}
AllModes == LiveModes \cup {"mock-error"}

\* C4: a GET or POST request never has more than one response; it is answered
\* exactly when the handler is done, with status 200, a mode among the four
\* modes, and an errorMessage exactly when the mode is mock-error; and until it
\* is answered the handler stays at a position from which it goes on.
C4_AlwaysOneEnvelope ==
  req.method \in {"GET", "POST"}
    => /\ Len(responses) <= 1
       /\ Done <=> Answered
       /\ ~Done => pc \in Running
       /\ Done => /\ responses[1].status = 200
                  /\ Envelope.mode \in AllModes
                  /\ ("errorMessage" \in DOMAIN Envelope) <=> (Envelope.mode = "mock-error")

C4_Witness ==
  /\ req.method = "POST" /\ Done /\ IsMock /\ Failed("osm")
  /\ "errorMessage" \in DOMAIN Envelope

\* every lead score computed so far: the items being built and those sent
AllScores ==
  {enriched[i].leadScore : i \in 1..Len(enriched)}
    \cup (IF Answered /\ responses[1].status = 200
            THEN {Envelope.companies[i].leadScore : i \in 1..Len(Envelope.companies)}
            ELSE {})

\* C5: every lead score, in live and in mock-error envelopes, is an integer
\* between 10 and 100.
C5_ScoreBounded == \A v \in AllScores : v \in 10..100

\* a candidate matching none of three non-blank criteria: the sum 0 becomes 10
C5_Witness ==
  /\ IsLive /\ subject # <<>> /\ industry # <<>> /\ location # <<>>
  /\ \E i \in 1..Len(Envelope.companies) : Envelope.companies[i].leadScore = 10

\* the words of a criterion: the maximal whitespace-free stretches of its
\* lower-cased text
Words(q) ==
  LET l == ToLowerCase(q)
  IN {SubSeq(l, x[1], x[2]) :
        x \in {y \in (1..Len(l)) \X (1..Len(l)) :
                 /\ y[1] <= y[2]
                 /\ \A k \in y[1]..y[2] : l[k] \notin WS
                 /\ (y[1] = 1 \/ l[y[1] - 1] \in WS)
                 /\ (y[2] = Len(l) \/ l[y[2] + 1] \in WS)}}

\* every word of the criterion occurs somewhere in the lower-cased text
HasEveryWord(text, q) ==
  LET t == ToLowerCase(text)
  IN \A w \in Words(q) : \E k \in 1..Len(t) :
       k + Len(w) - 1 <= Len(t) /\ \A m \in 1..Len(w) : t[k + m - 1] = w[m]

\* the score the rule prescribes for a candidate with the given four texts
RuleScore(name, description, address, website) ==
  LET blob == name \o <<" ">> \o description \o <<" ">> \o address \o <<" ">> \o website
      sum == (IF HasEveryWord(blob, subject) THEN 50 ELSE 0)
             + (IF HasEveryWord(blob, industry) THEN 30 ELSE 0)
             + (IF HasEveryWord(address, location) THEN 20 ELSE 0)
  IN IF sum = 0 THEN 10 ELSE sum

\* the score the rule prescribes for the record handed to score()
RuleScoreOf(c) == RuleScore(c.name, DescriptionOf(c), c.address, c.website)

AllBlank == Words(subject) = {} /\ Words(industry) = {} /\ Words(location) = {}

\* C6: the lead score of every scored record (each provider candidate, each
\* placeholder) is 50 + 30 + 20 points for the criteria all of whose words
\* occur in the record's blob (location: in its address), 10 when that sum is
\* 0, and 100 when the three criteria are blank.
C6_ScoreRule ==
  /\ \A i \in 1..Len(enriched) :
       /\ enriched[i].leadScore = RuleScoreOf(companies[i])
       /\ AllBlank => enriched[i].leadScore = 100
  /\ IsMock => \A i \in 1..Len(Envelope.companies) :
       /\ Envelope.companies[i].leadScore = RuleScoreOf(MockBase[i])
       /\ AllBlank => Envelope.companies[i].leadScore = 100

\* a criterion of two words of which the record holds only one earns nothing
C6_Witness ==
  /\ IsLive /\ Cardinality(Words(subject)) = 2
  /\ \E i \in 1..Len(enriched) :
       /\ \E w \in Words(subject) : Includes(ToLowerCase(companies[i].name), w)
       /\ enriched[i].leadScore = 10

\* C7: the lead score of every company of a live envelope is the rule's score
\* over the blob of its name, its description (the trimmed subject and
\* industry it carries), its address and its website.
C7_ScoreUsesDescription ==
  IsLive => \A i \in 1..Len(Envelope.companies) :
    LET k == Envelope.companies[i]
    IN k.leadScore = RuleScore(k.name, k.description, k.address, k.website)

\* C8 as stated: adjacent entries of the envelope's companies are in
\* non-increasing order of lead score.
C8_RankedByScore ==
  (Answered /\ responses[1].status = 200)
    => \A i \in 1..(Len(Envelope.companies) - 1) :
         Envelope.companies[i].leadScore >= Envelope.companies[i + 1].leadScore

\* C8 as amended: the companies of a live envelope are the serving provider's
\* candidates in the order the provider returned them (the first maxResults
\* of them); the lead score does not reorder them.
C8_ProviderOrderKept ==
  IsLive =>
    /\ Len(Envelope.companies) = Min(Len(companies), maxResults)
    /\ \A i \in 1..Len(Envelope.companies) :
         /\ Envelope.companies[i].name = companies[i].name
         /\ Envelope.companies[i].website = companies[i].website
         /\ Envelope.companies[i].address = companies[i].address

C8_Witness ==
  /\ IsLive /\ Len(Envelope.companies) = 2
  /\ Envelope.companies[1].leadScore < Envelope.companies[2].leadScore

\* every e-mail list built so far: the set being filled, the items' lists
EmailLists ==
  {out} \cup {enriched[i].emails : i \in 1..Len(enriched)}
    \cup (IF Answered /\ responses[1].status = 200
            THEN {Envelope.companies[i].emails : i \in 1..Len(Envelope.companies)}
            ELSE {})

\* C9: every e-mail list has at most 3 entries, no two of them equal when
\* compared without regard to case.
C9_EmailsFewAndDistinct ==
  \A l \in EmailLists :
    /\ Len(l) <= 3
    /\ \A i, j \in 1..Len(l) : i # j => ToLowerCase(l[i]) # ToLowerCase(l[j])

C9_Witness ==
  /\ IsLive
  /\ \E i \in 1..Len(Envelope.companies) :
       /\ Len(Envelope.companies[i].emails) = 3
       /\ Envelope.companies[i].emails[1] = <<"a", "@", "b", ".", "c", "o">>

\* C10: every entry of every e-mail list is lower-cased and none ends in the
\* placeholder suffix .example.
C10_LowerAndNoPlaceholder ==
  \A l \in EmailLists : \A i \in 1..Len(l) :
    /\ l[i] = ToLowerCase(l[i])
    /\ ~EndsWith(l[i], ExampleSuffix)

\* C11 as stated: a live envelope without companies is sent only after every
\* stage available has been attempted: the open-geodata provider and, with a
\* credential, the structured and the legacy provider.
C11_AllStagesAttempted ==
  (IsLive /\ Envelope.companies = <<>>)
    => /\ Contacted("osm")
       /\ apiKey => (Contacted("v1") /\ Contacted("legacy"))

\* C11 as amended: a live envelope without companies is sent only after the
\* open-geodata provider was asked and answered with no candidate, and, with a
\* credential, after the structured provider was asked; the legacy provider
\* was asked exactly when the structured attempt failed.
C11_FallbackAttempted ==
  (IsLive /\ Envelope.companies = <<>>)
    => /\ \E i \in 1..Len(calls) :
            calls[i].to = "osm" /\ calls[i].error = NoError /\ calls[i].returned = 0
       /\ apiKey => Contacted("v1")
       /\ Contacted("legacy") <=> Failed("v1")

\* the structured provider answers with an empty list: legacy is skipped
C11_Witness ==
  /\ IsLive /\ Envelope.companies = <<>> /\ apiKey
  /\ Succeeded("v1") /\ ~Contacted("legacy") /\ Succeeded("osm")

\* C12: every envelope holds at most resultLimit companies, 15 for a preview
\* and 40 for a full request, however many candidates the provider returned,
\* and the structured provider is asked for at most min(resultLimit, 20)
\* results.
C12_AtMostResultLimit ==
  LET resultLimit == IF fullFlag THEN 40 ELSE 15
  IN /\ (Answered /\ responses[1].status = 200)
          => Len(Envelope.companies) <= resultLimit
     /\ Len(enriched) <= resultLimit
     /\ \A i \in 1..Len(calls) : calls[i].to = "v1" =>
          (calls[i].limit <= resultLimit /\ calls[i].limit <= 20)

\* the provider returned more candidates than the limit of a full request
C12_Witness ==
  /\ IsLive /\ fullFlag /\ Contacted("v1")
  /\ Len(companies) > 40 /\ Len(Envelope.companies) = 40

\* two texts joined by one space, an empty one leaving no space
Spaced(a, b) == IF a = <<>> THEN b ELSE IF b = <<>> THEN a ELSE a \o <<" ">> \o b

Manufacturer == <<"m", "a", "n", "u", "f", "a", "c", "t", "u", "r", "e", "r">>

\* the canonical query of the request's criteria
Canonical ==
  LET q == Spaced(Spaced(subject, industry),
                  IF location = <<>> THEN <<>> ELSE <<"i", "n", " ">> \o location)
  IN IF q = <<>> THEN Manufacturer ELSE q

\* C13: once the request is parsed, queryUsed is the non-empty subject, the
\* non-empty industry and 'in <location>' joined by single spaces, or
\* 'manufacturer' when the three are empty; it is never empty; every provider
\* adapter is handed this string, and every envelope, live or mock-error,
\* echoes it.
C13_CanonicalQuery ==
  (pc # "start" /\ req.method \in {"GET", "POST"})
    => /\ queryUsed = Canonical
       /\ queryUsed # <<>>
       /\ (subject = <<>> /\ industry = <<>> /\ location = <<>>)
            => queryUsed = Manufacturer
       /\ \A i \in 1..Len(calls) : calls[i].arg = Canonical
       /\ Answered => /\ Envelope.queryUsed = Canonical
                      /\ \A i \in 1..Len(calls) : calls[i].arg = Envelope.queryUsed

\* all criteria empty, every provider asked, placeholder envelope
C13_Witness ==
  /\ IsMock /\ subject = <<>> /\ industry = <<>> /\ location = <<>>
  /\ Envelope.queryUsed = Manufacturer
  /\ Contacted("v1") /\ Contacted("legacy") /\ Contacted("osm")

\* the seven roles of a live company's links, in order
SevenRoles == <<
  <<"C", "E", "O">>,
  <<"C", "O", "O">>,
  <<"C", "T", "O">>,
  <<"H", "e", "a", "d", " ", "o", "f", " ", "O", "p", "e", "r", "a", "t", "i", "o", "n", "s">>,
  <<"H", "e", "a", "d", " ", "o", "f", " ", "S", "u", "p", "p", "l", "y", " ", "C", "h", "a", "i", "n">>,
  <<"O", "p", "e", "r", "a", "t", "i", "o", "n", "s", " ", "M", "a", "n", "a", "g", "e", "r">>,
  <<"S", "u", "p", "p", "l", "y", " ", "C", "h", "a", "i", "n", " ", "M", "a", "n", "a", "g", "e", "r">> >>

\* the percent escape of the characters a quoted role or name may hold
EscapeOf(c) ==
  CASE c = " " -> <<"%", "2", "0">>
    [] c = "\"" -> <<"%", "2", "2">>
    [] c = "EMDASH" -> <<"%", "E", "2", "%", "8", "0", "%", "9", "4">>
    [] OTHER -> <<c>>

\* a text as it appears inside a URL component
RECURSIVE Escaped(_)
Escaped(s) == IF s = <<>> THEN <<>> ELSE EscapeOf(Head(s)) \o Escaped(Tail(s))

Quoted(s) == <<"\"">> \o s \o <<"\"">>

\* the link names the role, and its URL is the search address followed by a
\* component that holds, escaped, the quoted role and the quoted company name
LinkFor(link, role, name) ==
  /\ link.role = role
  /\ StartsWith(link.url, SearchBase)
  /\ Includes(link.url, Escaped(Quoted(role)))
  /\ Includes(link.url, Escaped(Quoted(name)))

\* C14: every company of a live envelope has exactly 7 links, for CEO, COO,
\* CTO, Head of Operations, Head of Supply Chain, Operations Manager and Supply
\* Chain Manager in this order, each URL embedding the quoted role and the
\* quoted company name; every placeholder company of a mock-error envelope has
\* exactly one link, for CEO.
C14_LinkedInLinks ==
  /\ IsLive => \A i \in 1..Len(Envelope.companies) :
       LET k == Envelope.companies[i]
       IN /\ Len(k.linkedinSearch) = 7
          /\ \A j \in 1..7 : LinkFor(k.linkedinSearch[j], SevenRoles[j], k.name)
  /\ IsMock => \A i \in 1..Len(Envelope.companies) :
       LET k == Envelope.companies[i]
       IN /\ Len(k.linkedinSearch) = 1
          /\ LinkFor(k.linkedinSearch[1], SevenRoles[1], k.name)

\* a live company whose name holds a space, which the URL escapes
C14_Witness ==
  /\ IsLive
  /\ \E i \in 1..Len(Envelope.companies) :
       /\ Includes(Envelope.companies[i].name, <<" ">>)
       /\ Len(Envelope.companies[i].linkedinSearch) = 7

\* the provider request that produced the candidates: the last one issued
Serving == calls[Len(calls)]
ModeOf(to) ==
  CASE to = "v1" -> "live-v1" [] to = "legacy" -> "live-legacy" [] to = "osm" -> "live-osm"

\* C15: whatever the page fetches did (answered, failed, timed out, had a URL
\* that cannot be parsed, or no URL at all), a request whose provider chain
\* produced candidates ends with the envelope the serving provider's answer
\* determines: the placeholder envelope if a candidate's name cannot be
\* URL-encoded, and otherwise a live envelope with that provider's mode,
\* total, number and order of companies and lead scores; only the e-mail
\* lists depend on the pages.
C15_PageFailuresAbsorbed ==
  (Done /\ calls # <<>> /\ Serving.error = NoError /\ companies # <<>>)
    => IF ~AllEncodable
         THEN IsMock /\ Envelope.errorMessage = UriError.message
         ELSE
       /\ IsLive
       /\ Envelope.mode = ModeOf(Serving.to)
       /\ Envelope.total = Serving.returned
       /\ Len(Envelope.companies) = Min(Serving.returned, IF fullFlag THEN 40 ELSE 15)
       /\ \A i \in 1..Len(Envelope.companies) :
            /\ Envelope.companies[i].name = companies[i].name
            /\ Envelope.companies[i].leadScore = RuleScoreOf(companies[i])
            /\ Len(Envelope.companies[i].emails) <= 3

\* all five pages of one site timed out, the other site's URL cannot be parsed
C15_Witness ==
  /\ Done /\ IsLive /\ aborts = 5
  /\ \E i \in 1..Len(fetched) : fetched[i].url = PagePaths[2]
  /\ \A i \in 1..Len(Envelope.companies) : Envelope.companies[i].emails = <<>>

\* position of a provider in the fallback chain
Rank(p) == CASE p = "v1" -> 1 [] p = "legacy" -> 2 [] p = "osm" -> 3

\* C16: the provider requests of one run are issued one after the other in the
\* order structured, legacy, open-geodata, each provider at most once; the
\* legacy request directly follows a failed structured request, the
\* open-geodata request is issued only while no candidate has been obtained,
\* and without a credential neither Google provider is contacted.
C16_ChainSequential ==
  /\ \A i \in 1..Len(calls) :
       /\ i > 1 => Rank(calls[i - 1].to) < Rank(calls[i].to)
       /\ calls[i].to = "v1" => i = 1
       /\ calls[i].to = "legacy"
            => i = 2 /\ calls[1].to = "v1" /\ calls[1].error # NoError
       /\ calls[i].to = "osm" => \A j \in 1..(i - 1) : calls[j].returned = 0
       /\ calls[i].to \in {"v1", "legacy"} => apiKey
  /\ pc \in {"v1", "legacy"} => apiKey
  /\ pc = "osm" => companies = <<>>
  /\ (pc \notin {"start", "try", "osm"} /\ ~apiKey /\ req.method \in {"GET", "POST"})
       => Contacted("osm")

\* structured failed, legacy answered with no result, open-geodata was asked
C16_Witness ==
  /\ Len(calls) = 3
  /\ calls[1].to = "v1" /\ calls[1].error # NoError
  /\ calls[2].to = "legacy" /\ calls[2].error = NoError
  /\ calls[3].to = "osm"

\* C17: no page fetch is attempted for a candidate whose website cannot be
\* normalized to an origin.
C17_NoFetchWithoutOrigin ==
  \A i \in 1..Len(fetched) :
    normalizeUrl(Slice[fetched[i].cand].website) # <<>>

\* the page fetches issued for the c-th candidate, in the order issued
FetchesOf(c) == SelectSeq(fetched, LAMBDA f : f.cand = c)

VisitOrder == <<
  <<>>,
  <<"/", "c", "o", "n", "t", "a", "c", "t">>,
  <<"/", "c", "o", "n", "t", "a", "c", "t", "-", "u", "s">>,
  <<"/", "a", "b", "o", "u", "t">>,
  <<"/", "c", "o", "n", "t", "a", "c", "t", "s">> >>

\* C18: the pages of a website are fetched in the order origin, /contact,
\* /contact-us, /about, /contacts, each at most once; a page that fails or
\* times out does not end the discovery (a finished website had all five
\* pages fetched unless 3 addresses were found); no page is fetched and no
\* address added once 3 addresses are held.
C18_PageOrderAndEarlyStop ==
  /\ \A c \in 1..Len(Slice) :
       LET fs == FetchesOf(c)
           origin == normalizeUrl(Slice[c].website)
       IN /\ Len(fs) <= 5
          /\ \A k \in 1..Len(fs) : fs[k].url = origin \o VisitOrder[k]
          /\ (c <= Len(enriched) /\ Slice[c].website # <<>>)
               => \/ Len(fs) = 5
                  \/ Len(enriched[c].emails) = 3
  /\ pc \in {"page", "await"} => Len(out) < 3
  /\ Len(out) <= 3
  /\ \A c \in 1..Len(enriched) : Len(enriched[c].emails) <= 3

\* the origin timed out, /contact answered with three addresses, and the
\* remaining three pages were not fetched
C18_Witness ==
  /\ Len(enriched) = 1 /\ aborts = 1
  /\ Len(enriched[1].emails) = 3
  /\ Len(FetchesOf(1)) = 2

\* C19: enrichment is sequential: at most one page fetch is in flight at any
\* moment, it belongs to the candidate being enriched, and a fetch for a
\* candidate is issued only when every earlier candidate's item has been
\* pushed.
C19_OneFetchAtATime ==
  /\ Cardinality(inflight) <= 1
  /\ inflight # {} => /\ pc = "await"
                      /\ inflight = {[cand |-> idx + 1, page |-> pageIdx]}
  /\ pc \in {"page", "await"} => Len(enriched) = idx
  /\ \A i \in 1..Len(fetched) :
       /\ fetched[i].cand <= Len(enriched) + 1
       /\ \A j \in 1..(i - 1) : fetched[j].cand <= fetched[i].cand
  /\ Done => inflight = {}

\* the second candidate's first page is in flight after the first candidate's
\* discovery, which fetched pages, has finished
C19_Witness ==
  /\ pc = "await"
  /\ Len(enriched) = 1
  /\ FetchesOf(1) # <<>>
  /\ inflight = {[cand |-> 2, page |-> 1]}

Enriching == pc \in {"loop", "page", "await"}

\* what is left of the enrichment: 12 units for every candidate not yet pushed,
\* less the steps already taken for the current one (two for each page)
Remaining ==
  IF ~Enriching THEN 0
  ELSE 12 * (Len(Slice) - idx) + 1
         - (CASE pc = "loop" -> 0
              [] pc = "page" -> 2 * pageIdx - 1
              [] pc = "await" -> 2 * pageIdx)

\* C20: every page fetch in flight has its abort timer armed, so a page that
\* never answers is still left by the timer's step; every step of the
\* enrichment, the timer's included, brings the response nearer (the measure
\* Remaining decreases and is 0 only once responded), so the enrichment ends
\* even if every page hangs; no website has more than 5 pages fetched, pages
\* are fetched only for the at most resultLimit candidates of the slice, hence
\* at most 5 x resultLimit fetches; and a live response carries every
\* candidate of the slice.
C20_TimersBoundEnrichment ==
  /\ [](/\ inflight \subseteq timers
        /\ (pc = "await" /\ base # <<>>)
             => [cand |-> idx + 1, page |-> pageIdx] \in inflight
        /\ \A c \in 1..Len(Slice) : Len(FetchesOf(c)) <= 5
        /\ \A i \in 1..Len(fetched) : fetched[i].cand \in 1..Len(Slice)
        /\ Len(Slice) <= (IF fullFlag THEN 40 ELSE 15)
        /\ Len(fetched) <= 5 * Len(Slice)
        /\ Enriching => Remaining > 0
        /\ (Done /\ IsLive) => Len(Envelope.companies) = Len(Slice)
        /\ Done => timers = {})
  /\ [][Enriching => /\ Remaining' < Remaining
                     /\ pc' \in {"loop", "page", "await", "done", "catch"}
                     /\ pc' = "catch" => ~AllEncodable]_vars

\* all five pages of one site were aborted by their timers, the five fetches
\* for the other site were rejected, and the request responded
C20_Witness ==
  /\ Done /\ IsLive
  /\ aborts = 5
  /\ Len(fetched) = 10
  /\ timers = {}

\* the call to provider p succeeded and yielded at least one candidate
Served(p) ==
  \E i \in 1..Len(calls) :
    calls[i].to = p /\ calls[i].error = NoError /\ calls[i].returned >= 1

\* the candidate lists each adapter can produce from a provider answer
V1Lists == {MapV1([i \in 1..Len(l) |-> V1Place(l[i])]) : l \in Listings}
LegacyLists ==
  {MapLegacy([i \in 1..Len(l) |-> LegacyResult(l[i])], maxResults) : l \in Listings}

\* the envelope's companies are the first candidates of `companies`, in order
BuiltFromCandidates ==
  /\ Len(Envelope.companies) = Min(Len(companies), IF fullFlag THEN 40 ELSE 15)
  /\ \A i \in 1..Len(Envelope.companies) :
       /\ Envelope.companies[i].name = companies[i].name
       /\ Envelope.companies[i].website = companies[i].website
       /\ Envelope.companies[i].address = companies[i].address

\* C21: in a live envelope, mode live-v1 (live-legacy) means the structured
\* (legacy) provider succeeded with at least one candidate, the companies are
\* that provider's candidates, and the open-geodata provider was not
\* contacted; a live envelope without companies has mode live-osm.
C21_ModeNamesServingProvider ==
  (Done /\ IsLive)
    => /\ Envelope.mode = "live-v1"
            => /\ Served("v1") /\ ~Contacted("osm") /\ ~Contacted("legacy")
               /\ companies \in V1Lists
               /\ BuiltFromCandidates
       /\ Envelope.mode = "live-legacy"
            => /\ Served("legacy") /\ ~Contacted("osm")
               /\ companies \in LegacyLists
               /\ BuiltFromCandidates
       /\ Envelope.mode = "live-osm" => Succeeded("osm") /\ BuiltFromCandidates
       /\ Envelope.companies = <<>> => Envelope.mode = "live-osm"

\* the structured provider answered with no candidate and the open-geodata
\* provider then supplied the companies
C21_Witness ==
  /\ Done /\ IsLive
  /\ Succeeded("v1") /\ Succeeded("osm")
  /\ Envelope.mode = "live-osm"
  /\ Len(Envelope.companies) >= 1

\* C22 (as claimed): the envelope is the placeholder one exactly when the
\* open-geodata provider was contacted and its call failed.
C22_MockIffOsmFailed ==
  (Done /\ Answered /\ responses[1].status = 200)
    => (IsMock <=> Failed("osm"))

\* the chain produced candidates and the loop meets a name it cannot encode
LinksThrow ==
  /\ calls # <<>>
  /\ Serving.error = NoError
  /\ ~AllEncodable

\* C22 (amended): the envelope is the placeholder one exactly when an error
\* reached the outer catch: the open-geodata call failed (errorMessage is its
\* message), or the chain succeeded and building the links of a candidate
\* threw a URIError (errorMessage is that error's message). Failures of the
\* structured and legacy providers alone and page-fetch failures never do.
C22_MockIffErrorEscapes ==
  (Done /\ Answered /\ responses[1].status = 200)
    => /\ IsMock <=> (Failed("osm") \/ LinksThrow)
       /\ (IsMock /\ Failed("osm")) => Envelope.errorMessage = ErrorMessage(ErrorOf("osm"))
       /\ (IsMock /\ ~Failed("osm")) => Envelope.errorMessage = UriError.message
       /\ (IsLive /\ (Failed("v1") \/ Failed("legacy") \/ aborts > 0))
            => Succeeded("osm") \/ Served("v1") \/ Served("legacy")

\* the structured provider answered, a candidate's name could not be encoded,
\* and the placeholder envelope was sent without the open-geodata provider
\* being contacted
C22_Witness ==
  /\ Done /\ IsMock
  /\ Served("v1") /\ ~Contacted("osm")
  /\ Envelope.errorMessage = "URI malformed"

\* the candidates the adapter of the envelope's mode makes of the answer l
AdapterOutput(l) ==
  CASE Envelope.mode = "live-v1" -> MapV1([i \in 1..Len(l) |-> V1Place(l[i])])
    [] Envelope.mode = "live-legacy"
         -> MapLegacy([i \in 1..Len(l) |-> LegacyResult(l[i])], maxResults)
    [] Envelope.mode = "live-osm" -> MapOSM([i \in 1..Len(l) |-> OsmElement(l[i])])

resultLimit == IF fullFlag THEN 40 ELSE 15

\* C23 (as claimed): in a live envelope total is the number of entries of the
\* serving provider's answer, before any truncation to resultLimit: some
\* answer yields the candidates and has total entries.
C23_TotalIsProviderCount ==
  (Done /\ IsLive)
    => \E l \in Listings : companies = AdapterOutput(l) /\ Envelope.total = Len(l)

\* C23 (amended): in a live envelope total is the length of the candidate list
\* the serving adapter returned, before the handler's own truncation: the
\* whole answer for the structured provider, the named elements for the
\* open-geodata provider, and at most resultLimit for the legacy provider,
\* whose adapter cuts the answer itself; so total >= length of companies, with
\* equality whenever that list has at most resultLimit entries; in a
\* mock-error envelope total = 2 = length of companies.
C23_TotalIsAdapterCount ==
  /\ (Done /\ IsLive)
       => /\ \E l \in Listings :
               /\ companies = AdapterOutput(l)
               /\ Envelope.total = Len(AdapterOutput(l))
               /\ Envelope.mode = "live-v1" => Envelope.total = Len(l)
               /\ Envelope.mode = "live-legacy"
                    => Envelope.total = Min(Len(l), resultLimit)
          /\ Envelope.total >= Len(Envelope.companies)
          /\ Envelope.total <= resultLimit
               => Envelope.total = Len(Envelope.companies)
          /\ Envelope.total > resultLimit
               => Len(Envelope.companies) = resultLimit
  /\ (Done /\ IsMock)
       => Envelope.total = 2 /\ Len(Envelope.companies) = 2

\* the legacy provider answered with more results than the limit and total is
\* the limit
C23_Witness ==
  /\ Done /\ IsLive
  /\ Envelope.mode = "live-legacy"
  /\ Envelope.total = resultLimit
  /\ Len(Envelope.companies) = resultLimit

=============================================================================
